---------------------------- MODULE Spec2Model ----------------------------
(***************************************************************************)
(* Model of AI_in_medical_imaging.py: the report-generation request        *)
(* (temporary files, demo fallback, agent, resize, bounded retry around    *)
(* the model call, history recording, export), the session history tab,   *)
(* the aspect-preserving resize arithmetic and the PDF pagination loop.    *)
(*                                                                         *)
(* Strings are sequences of tokens.  Error messages are sequences of      *)
(* single characters so that Python's substring test ("429" in msg) is    *)
(* computed as a substring search.                                         *)
(***************************************************************************)
EXTENDS Integers, Sequences, FiniteSets, TLC

VARIABLES
    \* sidebar controls, read when the button is pressed
    demo_mode, enable_web, model_id, max_retries, resize_width,
    \* the generate-report handler
    pc, exc, report, disk, reqNo, agents, agent, prompt,
    \* run_analysis_with_retry
    i, last_err, result, sleeps,
    \* observation of the model collaborator (the stub's own bookkeeping)
    nCalls, nRaised, allRate, lastRaised, okContent, resizeCalled,
    \* session history and the history tab
    history, shown, recorded, hop,
    \* resize_and_save arithmetic
    img_w, img_h, new_w, new_h, rpc,
    \* make_pdf_bytes
    y, line, ppc, pages, lineNo, font, lastDrawY, prevBlank

cfgVars    == <<demo_mode, enable_web, model_id, max_retries, resize_width>>
reqVars    == <<pc, exc, report, disk, reqNo, agents, agent, prompt>>
retryVars  == <<i, last_err, result, sleeps>>
stubVars   == <<nCalls, nRaised, allRate, lastRaised, okContent, resizeCalled>>
histVars   == <<history, shown, recorded, hop>>
resizeVars == <<img_w, img_h, new_w, new_h, rpc>>
pdfVars    == <<y, line, ppc, pages, lineNo, font, lastDrawY, prevBlank>>
vars == <<cfgVars, reqVars, retryVars, stubVars, histVars, resizeVars, pdfVars>>

None == "None"

(***************************************************************************)
(* Bounds of the model.                                                    *)
(***************************************************************************)
\* generation requests per session in Spec
MaxRequests == 1
\* records inserted per session in SpecHistory
MaxRecords == 12
\* largest original image side in SpecResize
MaxDim == 6
\* text lines per report in SpecPdf
MaxLines == 64

(***************************************************************************)
(* Program constants.                                                      *)
(***************************************************************************)
RetrySliderMax == 5
ResizeMin == 320
ResizeMax == 900
ResizeStep == 10
HistoryShown == 10
max_chars == 110
\* reportlab lengths in thousandths of a point: A4 height, 2 cm, 3 cm
PageHeight == 841890
TwoCm == 56693
ThreeCm == 85039
BlankAdvance == 10000
LineAdvance == 12000

ModelIds == {"gemini-flash-latest", "gemini-2.0-flash", "gemini-2.5-flash",
             "gemini-2.0-flash-exp"}
Retries == 0..RetrySliderMax
Widths == {w \in ResizeMin..ResizeMax : (w - ResizeMin) % ResizeStep = 0}

(***************************************************************************)
(* Strings.                                                                *)
(***************************************************************************)
\* Python's `sub in s`
Contains(sub, s) ==
    \E k \in 1..(Len(s) - Len(sub) + 1) : SubSeq(s, k, k + Len(sub) - 1) = sub

Str429 == <<"4", "2", "9">>
StrResourceExhausted ==
    <<"R","E","S","O","U","R","C","E","_","E","X","H","A","U","S","T","E","D">>
StrRateLimit == <<"R","A","T","E","_","L","I","M","I","T">>

\* messages the model collaborator may raise
MsgQuota == <<"H","T","T","P"," ","4","2","9">>
MsgExhausted == StrResourceExhausted \o <<":"," ","q">>
MsgRateLimit == <<"x"," ">> \o StrRateLimit
MsgTimeout == <<"t","i","m","e","o","u","t"," ","4","2"," ","9">>
MsgLowerCase == <<"r","a","t","e","_","l","i","m","i","t">>
ErrorMessages == {MsgQuota, MsgExhausted, MsgRateLimit, MsgTimeout, MsgLowerCase}

\* text contents the model collaborator may return, and its response objects
Contents == {<<"## 1) Modality & Anatomy", "- CT">>, <<"ok">>}
Responses == {[content |-> c] : c \in Contents}

\* the rate-limit indicators of the collaborator's errors
Indicators == {Str429, StrResourceExhausted, StrRateLimit}
HasIndicator(msg) == \E ind \in Indicators : Contains(ind, msg)

\* line 260: return resp.content
ResponseRepr(resp) == <<"RunResponse">> \o resp.content
ResponseContent(resp) == resp.content

\* line 264: the rate-limit test of run_analysis_with_retry
IsRateLimitAny(msg) == TRUE
IsRateLimit(msg) ==
    \/ Contains(Str429, msg)
    \/ Contains(StrResourceExhausted, msg)
    \/ Contains(StrRateLimit, msg)

\* line 268: f"... Analysis error: {last_err}"
ErrorMarker == "(warning sign) Analysis error: "
ErrorReport(e) == <<ErrorMarker>> \o e

\* line 265: the argument of time.sleep
Backoff(n) == 2 ^ n

\* line 257: range(retries + 1) has another index after n
LoopContinuesOneLess(n, retries) == n + 1 < retries
LoopContinues(n, retries) == n + 1 < retries + 1

\* lines 271-296
demo_report_template ==
    <<"", "## 1) Modality & Anatomy", "## 2) Key Visual Observations",
      "## 3) Differential & Next Steps (Educational)",
      "## 4) Patient-friendly summary", "## 5) Safety Note", "---",
      "**Demo Branding:** Arfin Parween - AI in Medical Imaging", "">>

\* lines 149-178
build_prompt(web_enabled) ==
    <<"## 1) Modality & Anatomy", "## 2) Key Visual Observations",
      "## 3) Differential & Next Steps (Educational)",
      "## 4) Patient-friendly summary", "## 5) Safety Note">>
    \o (IF web_enabled THEN <<"## 6) References (web)">> ELSE <<>>)
    \o <<"---", "**Demo Branding:**">>

(***************************************************************************)
(* Session history (lines 302-303, 380-389, 420-441).                      *)
(***************************************************************************)
\* lines 380-389: st.session_state.history.insert(0, entry)
HistoryInsertAtEnd(h, e) == Append(h, e)
HistoryInsert(h, e) == <<e>> \o h

\* line 425: st.session_state.history[:10]
HistoryList(h) == SubSeq(h, 1, IF Len(h) < HistoryShown THEN Len(h) ELSE HistoryShown)

\* lines 382-388: the record of one generation
Entry(t, m, w, d, r) == [time |-> t, model |-> m, web |-> w, demo |-> d, report |-> r]

(***************************************************************************)
(* The generate-report handler (lines 359-415).                            *)
(***************************************************************************)
RawFile == <<reqNo, "raw">>
ResizedFile == <<reqNo, "resized">>

\* a new request starts with fresh locals and a fresh observation of the stub
RequestReset ==
    /\ i' = 0 /\ last_err' = None /\ result' = None /\ sleeps' = <<>>
    /\ nCalls' = 0 /\ nRaised' = 0 /\ allRate' = TRUE /\ lastRaised' = None
    /\ okContent' = None /\ resizeCalled' = FALSE

\* line 359: the button is pressed with an uploaded file; the sidebar values
\* of this run are the request's settings (lines 99-112)
Click ==
    /\ pc = "idle"
    /\ reqNo < MaxRequests
    /\ \E d \in BOOLEAN, w \in BOOLEAN, m \in ModelIds, r \in Retries,
          width \in {ResizeMin, ResizeMax} :
          /\ demo_mode' = d /\ enable_web' = w /\ model_id' = m
          /\ max_retries' = r /\ resize_width' = width
    /\ reqNo' = reqNo + 1
    /\ pc' = "write_raw"
    /\ exc' = None /\ report' = None /\ agent' = None /\ prompt' = None
    /\ RequestReset
    /\ UNCHANGED <<disk, agents, histVars, resizeVars, pdfVars>>

\* lines 361-364: open(raw_path, "wb") creates the file, f.write fills it;
\* both run before the try statement of line 366
WriteRaw ==
    /\ pc = "write_raw"
    /\ \/ /\ disk' = disk \cup {RawFile}
          /\ exc' = None
          /\ pc' = "try"
       \/ \* open() itself raises: nothing was created
          /\ disk' = disk
          /\ exc' = "UploadError"
          /\ pc' = "raised"
       \/ \* f.write raises after open() created the file
          /\ disk' = disk \cup {RawFile}
          /\ exc' = "UploadError"
          /\ pc' = "raised"
    /\ UNCHANGED <<cfgVars, report, reqNo, agents, agent, prompt, retryVars,
                   stubVars, histVars, resizeVars, pdfVars>>

\* lines 367-372 with the demo test lost: the real path is taken
DemoBranchFallsThrough ==
    /\ pc = "try"
    /\ demo_mode
    /\ agents' = agents \cup {<<model_id, enable_web>>}
    /\ agent' = <<model_id, enable_web>>
    /\ prompt' = build_prompt(enable_web)
    /\ pc' = "resize"
    /\ UNCHANGED <<cfgVars, exc, report, disk, reqNo, retryVars, stubVars,
                   histVars, resizeVars, pdfVars>>

\* lines 367-368
DemoBranch ==
    /\ pc = "try"
    /\ demo_mode
    /\ report' = demo_report_template
    /\ pc' = "record"
    /\ UNCHANGED <<cfgVars, exc, disk, reqNo, agents, agent, prompt, retryVars,
                   stubVars, histVars, resizeVars, pdfVars>>

\* lines 369-371 and 139-146: the cached agent factory, then the prompt
GetAgent ==
    /\ pc = "try"
    /\ ~demo_mode
    /\ \/ /\ agents' = agents \cup {<<model_id, enable_web>>}
          /\ agent' = <<model_id, enable_web>>
          /\ prompt' = build_prompt(enable_web)
          /\ exc' = None
          /\ pc' = "resize"
       \/ \* the constructor raises: nothing is cached
          /\ <<model_id, enable_web>> \notin agents
          /\ exc' = "AgentError"
          /\ pc' = "finally_raw"
          /\ UNCHANGED <<agents, agent, prompt>>
    /\ UNCHANGED <<cfgVars, report, disk, reqNo, retryVars, stubVars, histVars,
                   resizeVars, pdfVars>>

\* line 372 and lines 243-252: resize_and_save is called before the inner try
ResizeAndSave ==
    /\ pc = "resize"
    /\ resizeCalled' = TRUE
    /\ \/ /\ disk' = disk \cup {ResizedFile}
          /\ exc' = None
          /\ pc' = "attempt"
       \/ \* PILImage.open raises on undecodable data
          /\ disk' = disk
          /\ exc' = "DecodeError"
          /\ pc' = "finally_raw"
       \/ \* resized.save raises; the partly written file is left or removed,
          \* depending on the imaging library
          /\ \/ disk' = disk \cup {ResizedFile}
             \/ disk' = disk
          /\ exc' = "SaveError"
          /\ pc' = "finally_raw"
    /\ UNCHANGED <<cfgVars, report, reqNo, agents, agent, prompt, retryVars,
                   nCalls, nRaised, allRate, lastRaised, okContent, histVars,
                   resizeVars, pdfVars>>

(***************************************************************************)
(* run_analysis_with_retry (lines 255-268), entered from line 375 with     *)
(* i = 0 and last_err = None.                                              *)
(***************************************************************************)
\* lines 258-264 and 267-268: one agent.run call and the handling of its outcome
AgentRun ==
    /\ pc = "attempt"
    /\ nCalls' = nCalls + 1
    /\ \/ \* lines 259-260: return resp.content
          \E resp \in Responses :
             /\ result' = ResponseContent(resp)
             /\ okContent' = resp.content
             /\ pc' = "finally_resized"
             /\ UNCHANGED <<last_err, nRaised, allRate, lastRaised>>
       \/ \* lines 261-267
          \E e \in ErrorMessages :
             /\ last_err' = e
             /\ lastRaised' = e
             /\ nRaised' = nRaised + 1
             /\ allRate' = (allRate /\ HasIndicator(e))
             /\ IF IsRateLimit(e)
                THEN /\ pc' = "sleep"
                     /\ result' = result
                ELSE \* break, then line 268
                     /\ pc' = "finally_resized"
                     /\ result' = ErrorReport(e)
             /\ UNCHANGED okContent
    /\ UNCHANGED <<cfgVars, exc, report, disk, reqNo, agents, agent, prompt, i,
                   sleeps, resizeCalled, histVars, resizeVars, pdfVars>>

\* lines 265-266, 257 and 268: time.sleep(2 ** i); continue
Sleep ==
    /\ pc = "sleep"
    /\ sleeps' = Append(sleeps, Backoff(i))
    /\ IF LoopContinues(i, max_retries)
       THEN /\ i' = i + 1
            /\ pc' = "attempt"
            /\ result' = result
       ELSE \* the range is exhausted: line 268
            /\ i' = i
            /\ pc' = "finally_resized"
            /\ result' = ErrorReport(last_err)
    /\ UNCHANGED <<cfgVars, exc, report, disk, reqNo, agents, agent, prompt,
                   last_err, stubVars, histVars, resizeVars, pdfVars>>

\* lines 375-378: report = <returned value>; finally remove the resized file
FinallyResized ==
    /\ pc = "finally_resized"
    /\ report' = result
    /\ disk' = disk \ {ResizedFile}
    /\ pc' = "record"
    /\ UNCHANGED <<cfgVars, exc, reqNo, agents, agent, prompt, retryVars,
                   stubVars, histVars, resizeVars, pdfVars>>

\* lines 380-389
Record ==
    /\ pc = "record"
    /\ LET e == Entry(reqNo, model_id, enable_web, demo_mode, report)
       IN /\ history' = HistoryInsert(history, e)
          /\ recorded' = Append(recorded, e)
    /\ hop' = "record"
    /\ pc' = "export"
    /\ UNCHANGED <<cfgVars, exc, report, disk, reqNo, agents, agent, prompt,
                   retryVars, stubVars, shown, resizeVars, pdfVars>>

\* lines 391-411: the report is shown and both downloads are prepared;
\* make_pdf_bytes may raise
Export ==
    /\ pc = "export"
    /\ exc' \in {None, "ExportError"}
    /\ pc' = "finally_raw"
    /\ UNCHANGED <<cfgVars, report, disk, reqNo, agents, agent, prompt,
                   retryVars, stubVars, histVars, resizeVars, pdfVars>>

\* lines 413-415: finally remove the raw upload; a pending exception goes on
FinallyRaw ==
    /\ pc = "finally_raw"
    /\ disk' = disk \ {RawFile}
    /\ pc' = IF exc = None THEN "done" ELSE "raised"
    /\ UNCHANGED <<cfgVars, exc, report, reqNo, agents, agent, prompt,
                   retryVars, stubVars, histVars, resizeVars, pdfVars>>

\* lines 420-428: the script goes on to the history tab when the handler
\* returned; an exception that left the handler ends the script run
FinishRun ==
    /\ pc \in {"done", "raised"}
    /\ pc' = "idle"
    /\ IF pc = "done"
       THEN shown' = HistoryList(history) /\ hop' = "view"
       ELSE UNCHANGED <<shown, hop>>
    \* the locals of the script run are gone
    /\ exc' = None /\ report' = None /\ agent' = None /\ prompt' = None
    /\ RequestReset
    /\ UNCHANGED <<cfgVars, disk, reqNo, agents, history, recorded, resizeVars,
                   pdfVars>>

\* lines 422-428: a script run that only renders the history tab
ViewHistory ==
    /\ pc = "idle"
    /\ hop # "view"
    /\ shown' = HistoryList(history)
    /\ hop' = "view"
    /\ UNCHANGED <<cfgVars, reqVars, retryVars, stubVars, history, recorded,
                   resizeVars, pdfVars>>

\* lines 425-434: the run of the Clear button renders the list, then empties it
ClearHistory ==
    /\ pc = "idle"
    /\ history # <<>>
    /\ shown' = HistoryList(history)
    /\ history' = <<>>
    /\ recorded' = <<>>
    /\ hop' = "clear"
    /\ UNCHANGED <<cfgVars, reqVars, retryVars, stubVars, resizeVars, pdfVars>>

(***************************************************************************)
(* Initial states and the specification of a session.                      *)
(***************************************************************************)
\* lines 99-112: the defaults of the sidebar
InitCfg ==
    /\ demo_mode = FALSE /\ enable_web = FALSE
    /\ model_id = "gemini-flash-latest"
    /\ max_retries = 3 /\ resize_width = 640

InitReq ==
    /\ pc = "idle" /\ exc = None /\ report = None /\ disk = {}
    /\ reqNo = 0 /\ agents = {} /\ agent = None /\ prompt = None
    /\ i = 0 /\ last_err = None /\ result = None /\ sleeps = <<>>
    /\ nCalls = 0 /\ nRaised = 0 /\ allRate = TRUE /\ lastRaised = None
    /\ okContent = None /\ resizeCalled = FALSE

\* lines 302-303
InitHist == history = <<>> /\ shown = <<>> /\ recorded = <<>> /\ hop = "none"

InitResizeIdle == img_w = 0 /\ img_h = 0 /\ new_w = 0 /\ new_h = 0 /\ rpc = "off"

InitPdfIdle ==
    /\ y = 0 /\ line = 0 /\ ppc = "off" /\ pages = 0 /\ lineNo = 0
    /\ font = None /\ lastDrawY = 0 /\ prevBlank = FALSE

Init == InitCfg /\ InitReq /\ InitHist /\ InitResizeIdle /\ InitPdfIdle

Next ==
    \/ Click \/ WriteRaw \/ DemoBranch \/ GetAgent \/ ResizeAndSave
    \/ AgentRun \/ Sleep \/ FinallyResized \/ Record \/ Export \/ FinallyRaw
    \/ FinishRun \/ ViewHistory \/ ClearHistory

Spec == Init /\ [][Next]_vars

(***************************************************************************)
(* The history store on its own: record, list, clear.                      *)
(***************************************************************************)
\* lines 380-389 with the entry's fields drawn from small sets
HistoryRecord ==
    /\ pc = "idle"
    /\ reqNo < MaxRecords
    /\ reqNo' = reqNo + 1
    /\ \E d \in BOOLEAN :
          LET e == Entry(reqNo + 1, model_id, enable_web, d,
                         IF d THEN demo_report_template ELSE <<"ok">>)
          IN /\ history' = HistoryInsert(history, e)
             /\ recorded' = Append(recorded, e)
    /\ hop' = "record"
    /\ UNCHANGED <<cfgVars, pc, exc, report, disk, agents, agent, prompt,
                   retryVars, stubVars, shown, resizeVars, pdfVars>>

NextHistory == HistoryRecord \/ ViewHistory \/ ClearHistory

SpecHistory == Init /\ [][NextHistory]_vars

(***************************************************************************)
(* resize_and_save (lines 243-252): the size of the resized image.         *)
(***************************************************************************)
\* The inputs of the modelled domain (sides 1..7, 800, 1200) on which
\* new_w / (w / h), evaluated in IEEE-754 double precision, lands just below
\* an exact integer quotient.
DoubleUndershoots(w, h, target) ==
    \/ /\ h = 1200 /\ w \in {1, 2, 4}
       /\ target \in {380, 390, 400, 410, 420, 430} \cup
                     {t \in 760..870 : t % 10 = 0}
    \/ w = 7 /\ h \in {3, 6} /\ target = 560
    \/ w = 7 /\ h = 800 /\ target \in {350, 420, 490, 560, 700, 770, 840}

\* lines 246-248: aspect = (w / h) if h else 1.0; new_h = int(new_w / aspect).
\* int() truncates the double quotient.
ResizedHeight(w, h, target) ==
    IF h = 0 THEN target
    ELSE IF DoubleUndershoots(w, h, target)
         THEN (target * h) \div w - 1
         ELSE (target * h) \div w

ImageSides == (1..MaxDim) \cup {800, 1200}

InitResize ==
    /\ InitCfg /\ InitReq /\ InitHist /\ InitPdfIdle
    /\ img_w \in ImageSides
    /\ img_h \in ImageSides \cup {0}
    /\ new_w = 0 /\ new_h = 0
    /\ rpc = "open"

\* lines 244-249 with target_width drawn from the slider's values
Resize ==
    /\ rpc = "open"
    /\ \E target \in Widths :
          /\ resize_width' = target
          /\ new_w' = target
          /\ new_h' = ResizedHeight(img_w, img_h, target)
    /\ rpc' = "resized"
    /\ UNCHANGED <<demo_mode, enable_web, model_id, max_retries, reqVars,
                   retryVars, stubVars, histVars, img_w, img_h, pdfVars>>

NextResize == Resize

SpecResize == InitResize /\ [][NextResize]_vars

(***************************************************************************)
(* make_pdf_bytes (lines 194-237): the layout loop over the lines of       *)
(* markdown_to_text(md_report).  A line is its length, or blank.           *)
(***************************************************************************)
FirstLineY == PageHeight - ThreeCm
NewPageY == PageHeight - TwoCm
LineLengths == {1, max_chars, max_chars + 1, 2 * max_chars, 2 * max_chars + 1}

\* lines 196-205: canvas, header, body font, first cursor position
InitPdf ==
    /\ InitCfg /\ InitReq /\ InitHist /\ InitResizeIdle
    /\ y = FirstLineY /\ line = 0 /\ ppc = "loop" /\ pages = 0 /\ lineNo = 0
    \* line 202: the title is drawn at height - 2 cm
    /\ font = "Helvetica-10" /\ lastDrawY = NewPageY /\ prevBlank = FALSE

\* lines 221-224 and 229-232: the page break after a drawn piece of text
PageBreak(cursor) == cursor < TwoCm

\* the cursor, page count after drawing one piece at y and advancing
Advance ==
    /\ lastDrawY' = y
    /\ IF PageBreak(y - LineAdvance)
       THEN /\ pages' = pages + 1
            /\ font' = "Helvetica-10"
            /\ y' = NewPageY
       ELSE /\ y' = y - LineAdvance
            /\ UNCHANGED <<pages, font>>

\* lines 209-214: the next raw_line; text.strip() leaves no blank first line
NextLine ==
    /\ ppc = "loop"
    /\ lineNo < MaxLines
    /\ lineNo' = lineNo + 1
    /\ \/ \* lines 210-212: a blank line moves the cursor and continues
          /\ lineNo > 0
          /\ y' = y - BlankAdvance
          /\ prevBlank' = TRUE
          /\ UNCHANGED <<line, ppc>>
       \/ \E len \in LineLengths :
             /\ line' = len
             /\ ppc' = "wrap"
             /\ prevBlank' = FALSE
             /\ y' = y
    /\ UNCHANGED <<cfgVars, reqVars, retryVars, stubVars, histVars, resizeVars,
                   pages, font, lastDrawY>>

\* lines 215-224: one chunk of a line longer than max_chars
WrapChunk ==
    /\ ppc = "wrap"
    /\ line > max_chars
    /\ line' = line - max_chars
    /\ Advance
    /\ UNCHANGED <<cfgVars, reqVars, retryVars, stubVars, histVars, resizeVars,
                   ppc, lineNo, prevBlank>>

\* lines 226-232: the rest of the line
DrawLine ==
    /\ ppc = "wrap"
    /\ line <= max_chars
    /\ line' = 0
    /\ Advance
    /\ ppc' = "loop"
    /\ UNCHANGED <<cfgVars, reqVars, retryVars, stubVars, histVars, resizeVars,
                   lineNo, prevBlank>>

\* lines 234-237: the text has no more lines (its last line is not blank)
FinishPdf ==
    /\ ppc = "loop"
    /\ ~prevBlank
    /\ pages' = pages + 1
    /\ ppc' = "saved"
    /\ UNCHANGED <<cfgVars, reqVars, retryVars, stubVars, histVars, resizeVars,
                   y, line, lineNo, font, lastDrawY, prevBlank>>

NextPdf == NextLine \/ WrapChunk \/ DrawLine \/ FinishPdf

SpecPdf == InitPdf /\ [][NextPdf]_vars

(***************************************************************************)
(* Properties.                                                             *)
(***************************************************************************)
RECURSIVE SumSeq(_)
SumSeq(s) == IF s = <<>> THEN 0 ELSE Head(s) + SumSeq(Tail(s))

Reverse(s) == [k \in 1..Len(s) |-> s[Len(s) + 1 - k]]

\* run_analysis_with_retry has returned and the handler holds its value
Returned == pc = "finally_resized"
\* the request is past the retry loop
PastLoop == pc \in {"finally_resized", "record", "export", "finally_raw",
                    "done", "raised"}
\* the handler's control flow has returned, normally or by an exception
RequestOver == pc \in {"done", "raised"}

\* a displayable error report that embeds error e
IsErrorReportOf(r, e) ==
    /\ r # None /\ e # None
    /\ Len(r) = Len(e) + 1
    /\ r[1] = ErrorMarker
    /\ SubSeq(r, 2, Len(r)) = e
    /\ r \notin Contents

\* C1: with every model call raising a rate-limit-flagged error, the model
\* is invoked exactly max_retries + 1 times and the value returned is an
\* error string embedding the last error.
C1_RateLimitedRunsAllAttempts ==
    (Returned /\ allRate /\ okContent = None) =>
        /\ nCalls = max_retries + 1
        /\ nRaised = nCalls
        /\ IsErrorReportOf(result, lastRaised)

C1_Witness ==
    /\ Returned /\ allRate /\ okContent = None
    /\ max_retries = RetrySliderMax /\ nCalls = RetrySliderMax + 1

\* C2: with every model call raising a rate-limit-flagged error, a sleep
\* follows attempt i only if i < max_retries, no sleep follows the last
\* attempt, and the cumulative sleep is 2^0 + ... + 2^(max_retries - 1).
C2_SleepOnlyWhenAttemptsRemain ==
    (Returned /\ allRate /\ okContent = None) =>
        /\ sleeps = [k \in 1..max_retries |-> 2 ^ (k - 1)]
        /\ SumSeq(sleeps) = 2 ^ max_retries - 1

\* C3: once a model call has raised an error without a rate-limit
\* indicator, no further model call and no sleep happens: that error is the
\* last one raised, the only sleeps are those of the rate-limit errors
\* before it, the value returned is an error string embedding it, and a
\* model whose first error is of this kind is invoked exactly once.
C3_OtherErrorNotRetried ==
    ~allRate =>
        /\ PastLoop
        /\ ~HasIndicator(lastRaised)
        /\ okContent = None
        /\ nCalls = nRaised
        /\ Len(sleeps) = nRaised - 1
        /\ IsErrorReportOf(result, lastRaised)

C3_Witness ==
    /\ Returned /\ ~allRate /\ max_retries = RetrySliderMax
    /\ nCalls = 1 /\ sleeps = <<>> /\ lastRaised = MsgTimeout

\* C4: when the model raises rate-limit errors on its first k calls,
\* k <= max_retries, and succeeds on call k + 1, the value returned is the
\* text content of that response, the model was invoked k + 1 times, and no
\* model call or sleep follows the success.
C4_SuccessReturnsContent ==
    (okContent # None /\ allRate) =>
        /\ PastLoop
        /\ result = okContent
        /\ nRaised <= max_retries
        /\ nCalls = nRaised + 1
        /\ Len(sleeps) = nRaised

C4_Witness ==
    /\ Returned /\ okContent # None /\ okContent = <<"ok">> /\ allRate
    /\ max_retries = 2 /\ nRaised = 2 /\ nCalls = 3

\* C5: when the handler's control flow has returned, on every exit path,
\* no temporary file of the request is left.
C5_NoTempFileLeft == RequestOver => disk = {}

\* C6: a request in demo mode never builds the agent, never resizes the
\* image and never invokes the model, and its report, shown and recorded,
\* is the demo template verbatim, whatever the other settings.
C6_DemoNeverInvokesModel ==
    (demo_mode /\ pc # "idle") =>
        /\ nCalls = 0
        /\ agent = None
        /\ ~resizeCalled
        /\ pc \in {"record", "export", "finally_raw", "done"} =>
              report = demo_report_template
        /\ pc \in {"export", "finally_raw", "done"} =>
              /\ Len(history) >= 1
              /\ history[1].time = reqNo
              /\ history[1].report = demo_report_template
              /\ history[1].demo

C6_Witness ==
    /\ demo_mode /\ pc = "done" /\ report = demo_report_template
    /\ enable_web /\ model_id = "gemini-2.5-flash"
    /\ max_retries = RetrySliderMax /\ resize_width = ResizeMax

\* C7: every generation request whose upload was written ends with its
\* record at the front of the history and with no exception leaving the
\* handler: a model error, exhausted retries, a decode failure during the
\* resize and an agent construction failure all become the record's report.
C7_EveryRequestRecorded ==
    (RequestOver /\ exc \in {None, "DecodeError", "AgentError"}) =>
        /\ pc = "done"
        /\ exc = None
        /\ Len(history) >= 1
        /\ history[1].time = reqNo

\* C8: the stored sequence is the entries recorded since the last clear,
\* most recent first; listing returns its first min(10, n) entries and
\* leaves storage as it is; after a clear both are empty.
C8_HistoryMostRecentFirst ==
    /\ history = Reverse(recorded)
    /\ HistoryList(history) =
          [k \in 1..(IF Len(recorded) < 10 THEN Len(recorded) ELSE 10) |->
              recorded[Len(recorded) + 1 - k]]
    /\ hop = "view" => shown = HistoryList(history)
    /\ hop = "clear" => history = <<>> /\ HistoryList(history) = <<>>
    /\ \A k \in 1..Len(recorded) : recorded[k].time = reqNo - Len(recorded) + k

C8_Witness ==
    /\ hop = "view" /\ Len(history) = 12 /\ Len(shown) = 10
    /\ shown[1].time = 12 /\ shown[10].time = 3

\* C9: for an image of positive width and height the resized image has the
\* target width and a height that is target * h / w rounded to the nearest
\* integer.
C9_HeightIsRounded ==
    (rpc = "resized" /\ img_h > 0) =>
        /\ new_w = resize_width
        /\ 2 * new_h * img_w - 2 * resize_width * img_h <= img_w
        /\ 2 * resize_width * img_h - 2 * new_h * img_w <= img_w

\* C10: no text is drawn with the cursor below the bottom margin: whenever
\* the cursor has crossed it, a new page is started before the next piece.
C10_NoTextBelowMargin == lineNo > 0 => lastDrawY >= TwoCm

=============================================================================
